---- MODULE Spec2Model ----
(***************************************************************************)
(* Flock: the asynchronous job pipeline of backend/app.                    *)
(*   routes/jobs.py  create_job, get_job, _validate_submission             *)
(*   tasks.py        run_flock_job and its helpers                         *)
(* The Job Store (tables jobs and results), the Celery queue, the HTTP     *)
(* handlers and the workers are the state; every database statement, every *)
(* enqueue and every provider call is a step that may also raise.          *)
(***************************************************************************)
EXTENDS Integers, Sequences, FiniteSets, TLC

(***************************************************************************)
(* Bounds of the model.                                                    *)
(***************************************************************************)
MaxJobs == 2          \* accepted submissions (job ids minted by uuid4)
MaxRedeliver == 1     \* extra deliveries of an already delivered message
NumWorkers == 2       \* worker processes consuming the queue
MaxTravelers == 2     \* travelers of a submission in the pipeline inputs
StatusJobs == 1       \* accepted submissions while status requests are made
PipelineJobs == 1     \* accepted submissions in the pipeline specification

JobIds == 1..MaxJobs
Workers == 1..NumWorkers

(***************************************************************************)
(* JSON values, tagged by their Python type.                               *)
(***************************************************************************)
Absent == [t |-> "absent"]                  \* key not in the dict
Null == [t |-> "null"]                      \* None
Str(s) == [t |-> "str", v |-> s]
Bool(b) == [t |-> "bool", v |-> b]
Num(n) == [t |-> "int", v |-> n]
List(s) == [t |-> "list", v |-> s]
Dict(d) == [t |-> "dict", v |-> d]

\* The least i in 1..n with P(i), or 0: the iteration at which a Python
\* for-loop with a raise in its body stops.
FirstIdx(n, P(_)) ==
    IF \E i \in 1..n : P(i)
    THEN CHOOSE i \in 1..n : P(i) /\ \A k \in 1..(i - 1) : ~P(k)
    ELSE 0

(***************************************************************************)
(* routes/jobs.py: validation.  A validator returns NoExc, raises a        *)
(* ValueError carrying a message, or raises another exception.             *)
(***************************************************************************)
NoExc == [exc |-> "none"]
ValueError(m) == [exc |-> "ValueError", msg |-> m]
OtherExc(k) == [exc |-> k]

_TIME_WINDOW_FIELDS ==
    << "outbound_departure_window", "outbound_arrival_window",
       "return_departure_window", "return_arrival_window" >>

\* f"{path}.{field} must have 'earliest' and 'latest' fields" (line 29-30)
BadWindow(w) ==
    /\ w.t \notin {"absent", "null"}
    /\ \/ w.t # "dict"
       \/ w.v.earliest.t = "absent"
       \/ w.v.latest.t = "absent"

_validate_filters(f, path) ==
    IF f.t # "dict"
    THEN OtherExc("AttributeError")         \* f.get on a value that is no dict
    ELSE LET d == f.v
             bad == FirstIdx(4, LAMBDA k : BadWindow(d[_TIME_WINDOW_FIELDS[k]]))
         IN  IF d.non_stop_only.t # "bool"
             THEN ValueError([kind |-> "must be a boolean", path |-> path,
                              field |-> "non_stop_only"])
             ELSE IF d.excluded_airlines.t # "list"
             THEN ValueError([kind |-> "must be a list", path |-> path,
                              field |-> "excluded_airlines"])
             ELSE IF bad # 0
             THEN ValueError([kind |-> "must have 'earliest' and 'latest' fields",
                              path |-> path, field |-> _TIME_WINDOW_FIELDS[bad]])
             ELSE NoExc

RequiredFields ==
    << "travelers", "destinations", "outbound_date", "return_date",
       "default_filters" >>

TravelerFields == << "name", "origin_airport", "filters" >>

\* The body of the loop over travelers (lines 42-45) for traveler i.
ValidateTraveler(traveler, i) ==
    LET miss == FirstIdx(3, LAMBDA k : traveler[TravelerFields[k]].t = "absent")
    IN  IF miss # 0
        THEN ValueError([kind |-> "missing field", path |-> <<"travelers", i>>,
                         field |-> TravelerFields[miss]])
        ELSE _validate_filters(traveler.filters, <<"travelers", i, "filters">>)

_validate_submission(data) ==
    LET miss == FirstIdx(5, LAMBDA k : data[RequiredFields[k]].t = "absent")
    IN  IF miss # 0
        THEN ValueError([kind |-> "Missing required field", path |-> <<>>,
                         field |-> RequiredFields[miss]])
        ELSE IF data.travelers.t # "list" \/ Len(data.travelers.v) = 0
        THEN ValueError([kind |-> "must be a non-empty list", path |-> <<>>,
                         field |-> "travelers"])
        ELSE IF data.destinations.t # "list" \/ Len(data.destinations.v) = 0
        THEN ValueError([kind |-> "must be a non-empty list", path |-> <<>>,
                         field |-> "destinations"])
        ELSE LET ts == data.travelers.v
                 bad == FirstIdx(Len(ts),
                                 LAMBDA i : ValidateTraveler(ts[i], i) # NoExc)
             IN  IF bad # 0
                 THEN ValidateTraveler(ts[bad], bad)
                 ELSE _validate_filters(data.default_filters, <<"default_filters">>)

\* `if not data` (line 52): get_json(silent=True) gave None, or a JSON value
\* that Python holds false; of the objects that is the empty one.
IsFalsy(body) ==
    \/ body.t = "null"
    \/ /\ body.t = "dict"
       /\ \A k \in 1..5 : body.v[RequiredFields[k]].t = "absent"
       /\ ~body.v.other_keys

(***************************************************************************)
(* Submissions offered to create_job.                                      *)
(***************************************************************************)
Filters(max_stops) ==
    [ non_stop_only |-> Bool(FALSE), excluded_airlines |-> List(<<>>),
      max_stops |-> max_stops,
      outbound_departure_window |-> Absent, outbound_arrival_window |-> Absent,
      return_departure_window |-> Absent, return_arrival_window |-> Absent ]

Traveler(i, max_stops) ==
    [ name |-> Str(<<"traveler", i>>), origin_airport |-> Str(<<"origin", i>>),
      filters |-> Dict(Filters(max_stops)) ]

Submission(travelers, destinations) ==
    Dict([ travelers |-> travelers, destinations |-> destinations,
           outbound_date |-> Str("2026-04-15"), return_date |-> Str("2026-04-22"),
           default_filters |-> Dict(Filters(Num(1))), other_keys |-> FALSE ])

EmptyObject ==
    Dict([ travelers |-> Absent, destinations |-> Absent, outbound_date |-> Absent,
           return_date |-> Absent, default_filters |-> Absent, other_keys |-> FALSE ])

\* Destination lists of the submissions: a code may occur twice, the
\* validator asks only for a non-empty list (line 39).
DestLists ==
    { <<"CUN">>, <<"CUN", "LIS">>, <<"CUN", "CUN">>, <<"CUN", "CUN", "LIS">> }

\* Inputs of the whole-system specification: no body, the empty object, an
\* object without "travelers", an object whose travelers list is empty, and
\* accepted submissions of one traveler, with and without filters.max_stops.
LifecyclePayloads ==
    { Null, EmptyObject,
      Submission(Absent, List(<<"CUN">>)),
      Submission(List(<<>>), List(<<"CUN">>)),
      Submission(List(<<Traveler(1, Num(0))>>), List(<<"CUN">>)),
      Submission(List(<<Traveler(1, Absent)>>), List(<<"CUN">>)) }

\* Inputs of the validation specification: every choice of the required
\* fields that are present, and objects with all of them whose travelers,
\* destinations and filters are well or ill formed.
Window(earliest, latest) == Dict([earliest |-> earliest, latest |-> latest])

FilterVariants ==
    { Dict(Filters(Num(0))), Dict(Filters(Absent)), Null,
      Dict([Filters(Num(0)) EXCEPT !.non_stop_only = Str("yes")]),
      Dict([Filters(Num(0)) EXCEPT !.non_stop_only = Absent]),
      Dict([Filters(Num(0)) EXCEPT !.excluded_airlines = Null]),
      Dict([Filters(Num(0)) EXCEPT
                !.outbound_arrival_window = Window(Str(<<0, 8, 10, 0, 0>>), Absent)]),
      Dict([Filters(Num(0)) EXCEPT
                !.outbound_departure_window = Str("morning"),
                !.return_arrival_window = Window(Absent, Absent)]),
      Dict([Filters(Num(0)) EXCEPT
                !.return_departure_window =
                    Window(Str(<<0, 8, 10, 0, 0>>), Str(<<1, 2, 10, 0, 0>>))]) }

TravelerVariants ==
    { [Traveler(1, Num(0)) EXCEPT !.filters = f] : f \in FilterVariants }
    \cup { [Traveler(1, Num(0)) EXCEPT !.name = Absent],
           [Traveler(1, Num(0)) EXCEPT !.origin_airport = Absent],
           [Traveler(1, Num(0)) EXCEPT !.filters = Absent],
           [Traveler(1, Num(0)) EXCEPT !.name = Absent, !.filters = Absent] }

PresentOrAbsent(value) == {value, Absent}

ValidationPayloads ==
    { Null, EmptyObject, [EmptyObject EXCEPT !.v.other_keys = TRUE] }
    \cup { Dict([ travelers |-> t, destinations |-> d, outbound_date |-> o,
                  return_date |-> r, default_filters |-> f, other_keys |-> FALSE ]) :
             t \in PresentOrAbsent(List(<<Traveler(1, Num(0))>>)),
             d \in PresentOrAbsent(List(<<"CUN">>)),
             o \in PresentOrAbsent(Str("2026-04-15")),
             r \in PresentOrAbsent(Str("2026-04-22")),
             f \in PresentOrAbsent(Dict(Filters(Num(1)))) }
    \cup { Submission(t, d) :
             t \in {Null, List(<<>>)} \cup { List(<<a>>) : a \in TravelerVariants }
                   \cup { List(<<Traveler(1, Num(0)), a>>) : a \in TravelerVariants },
             d \in {Null, List(<<>>), List(<<"CUN">>)} }
    \cup { [Submission(List(<<a>>), List(<<"CUN">>)) EXCEPT !.v.default_filters = f] :
             a \in { [Traveler(1, Num(0)) EXCEPT !.filters = Absent],
                     [Traveler(1, Num(0)) EXCEPT !.filters = Null],
                     Traveler(1, Num(0)) },
             f \in FilterVariants \cup {Null} }

\* Inputs of the pipeline specification: 1..MaxTravelers travelers, every
\* destination list of DestLists.
PipelinePayloads ==
    { Submission(List([i \in 1..n |-> Traveler(i, Num(0))]), List(ds)) :
        n \in 1..MaxTravelers, ds \in DestLists }

(***************************************************************************)
(* State.                                                                  *)
(***************************************************************************)
VARIABLES
    jobs,        \* table jobs: id -> row (status, submission, error, ...)
    results,     \* table results: id -> the rows with that job_id, in order
    queue,       \* Celery queue: id -> messages waiting for a worker
    enqueued,    \* id -> number of run_flock_job.delay(id) calls that succeeded
    delivered,   \* id -> number of deliveries of id to a worker so far
    redelivered, \* number of repeated deliveries the broker has made
    nextId,      \* the next uuid4 of create_job
    api,         \* the create_job request in progress, and its response
    worker,      \* per worker: position in run_flock_job and its locals
    client       \* the get_job request in progress, and its response

vars == << jobs, results, queue, enqueued, delivered, redelivered, nextId,
           api, worker, client >>

NoRow == [ status |-> "absent", submission |-> Null, created_at |-> Null,
           completed_at |-> Null, error |-> Null ]

Terminal == {"complete", "failed"}

NoResponse == [ code |-> 0 ]

ApiIdle == [ pc |-> "idle", data |-> Null, job_id |-> 0, response |-> NoResponse ]

(***************************************************************************)
(* routes/jobs.py: create_job.                                             *)
(***************************************************************************)
\* create_job answers: the request ends with this response.
Respond(body, response) ==
    api' = [ pc |-> "done", data |-> body, job_id |-> 0, response |-> response ]

\* A create_job that has written the job before it validates.
RejectAfterInsert(body, response) ==
    /\ Respond(body, response)
    /\ jobs' = [jobs EXCEPT ![1] = [ status |-> "pending", submission |-> body,
                                    created_at |-> Str("now"),
                                    completed_at |-> Null, error |-> Null ]]
    /\ UNCHANGED << results, queue, enqueued, delivered, redelivered,
                    nextId, worker, client >>

\* The answer of create_job to a body it does not accept (lines 51-59): no
\* statement has been executed, nothing is enqueued.
Reject(body, response) ==
    /\ Respond(body, response)
    /\ UNCHANGED << jobs, results, queue, enqueued, delivered, redelivered,
                    nextId, worker, client >>

\* Lines 51-71: parse, validate, mint the job id.
CreateJobRequest(payloads, maxJobs) ==
    /\ api.pc = "idle"
    /\ \E body \in payloads :
         IF IsFalsy(body)
         THEN Reject(body, [code |-> 400,
                            error |-> [kind |-> "Request body must be JSON"]])
         ELSE LET v == _validate_submission(body.v)
              IN  IF v.exc = "ValueError"
                  THEN Reject(body, [code |-> 400, error |-> v.msg])
                  ELSE IF v.exc # "none"
                  THEN Reject(body, [code |-> 500, error |-> [kind |-> v.exc]])
                  ELSE /\ nextId <= maxJobs
                       /\ api' = [ pc |-> "insert", data |-> body,
                                   job_id |-> nextId, response |-> NoResponse ]
                       /\ nextId' = nextId + 1
                       /\ UNCHANGED << jobs, results, queue, enqueued, delivered,
                                       redelivered, worker, client >>

\* Lines 73-78: insert into jobs (id, status, submission), committed; the
\* statement may raise, and create_job then answers 500.
InsertJob(id, data) ==
    jobs' = [jobs EXCEPT ![id] = [ status |-> "pending", submission |-> data,
                                   created_at |-> Str("now"),
                                   completed_at |-> Null, error |-> Null ]]

CreateJobInsert ==
    /\ api.pc = "insert"
    /\ \/ /\ InsertJob(api.job_id, api.data)
          /\ api' = [api EXCEPT !.pc = "enqueue"]
       \/ /\ Respond(api.data, [code |-> 500, error |-> [kind |-> "database"]])
          /\ UNCHANGED jobs
    /\ UNCHANGED << results, queue, enqueued, delivered, redelivered, nextId,
                    worker, client >>

\* Line 81: run_flock_job.delay(job_id); lines 82-84: answer 201.  The broker
\* may be unreachable: delay raises and create_job answers 500.
Enqueue(id) ==
    /\ queue' = [queue EXCEPT ![id] = @ + 1]
    /\ enqueued' = [enqueued EXCEPT ![id] = @ + 1]

CreateJobEnqueue ==
    /\ api.pc = "enqueue"
    /\ \/ /\ Enqueue(api.job_id)
          /\ Respond(api.data, [code |-> 201, job_id |-> api.job_id])
       \/ /\ Respond(api.data, [code |-> 500, error |-> [kind |-> "broker"]])
          /\ UNCHANGED << queue, enqueued >>
    /\ UNCHANGED << jobs, results, delivered, redelivered, nextId, worker,
                    client >>

\* The response has been sent; the handler takes the next request.
CreateJobReturn ==
    /\ api.pc = "done"
    /\ api' = ApiIdle
    /\ UNCHANGED << jobs, results, queue, enqueued, delivered, redelivered,
                    nextId, worker, client >>

(***************************************************************************)
(* tasks.py: helpers of run_flock_job.                                     *)
(* A timestamp "2026-04-15T08:00:00" is its two parts around the "T"; the  *)
(* time part is a string of characters, each given by its rank in the      *)
(* character order: "0".."9" are 0..9 and ":" is 10.                       *)
(***************************************************************************)
At(time) == [date |-> "2026-04-15", time |-> time]

T0800 == <<0, 8, 10, 0, 0, 10, 0, 0>>
T1200 == <<1, 2, 10, 0, 0, 10, 0, 0>>
T1830 == <<1, 8, 10, 3, 0, 10, 0, 0>>

\* Python's a <= b on strings.
RECURSIVE StrLeq(_, _)
StrLeq(a, b) ==
    IF a = <<>> THEN TRUE
    ELSE IF b = <<>> THEN FALSE
    ELSE IF Head(a) # Head(b) THEN Head(a) < Head(b)
    ELSE StrLeq(Tail(a), Tail(b))

\* dt_str.split("T")[1][:5]
TimePart(dt_str) ==
    SubSeq(dt_str.time, 1, IF Len(dt_str.time) < 5 THEN Len(dt_str.time) ELSE 5)

\* A window whose latest bound is excluded.
InWindowExclusive(dt_str, window) ==
    IF window.t \in {"absent", "null"}
    THEN TRUE
    ELSE /\ StrLeq(window.v.earliest.v, TimePart(dt_str))
         /\ StrLeq(TimePart(dt_str), window.v.latest.v)
         /\ TimePart(dt_str) # window.v.latest.v

_in_time_window(dt_str, window) ==
    IF window.t \in {"absent", "null"}
    THEN TRUE
    ELSE /\ StrLeq(window.v.earliest.v, TimePart(dt_str))
         /\ StrLeq(TimePart(dt_str), window.v.latest.v)

\* filters["max_stops"] (line 40) raises when the key is absent (KeyError)
\* or holds no number (TypeError): the validator does not ask for it.
MaxStopsRaises(filters) == filters.max_stops.t # "int"

\* A filter that keeps the offers of exactly max_stops stops.
PassesExactStops(offer, filters) ==
    LET outbound_segs == offer.itineraries[1].segments
        return_segs == offer.itineraries[2].segments
    IN  /\ Len(outbound_segs) - 1 = filters.max_stops.v
        /\ Len(return_segs) - 1 = filters.max_stops.v
        /\ _in_time_window(outbound_segs[1].departure.at,
                           filters.outbound_departure_window)
        /\ _in_time_window(outbound_segs[Len(outbound_segs)].arrival.at,
                           filters.outbound_arrival_window)
        /\ _in_time_window(return_segs[1].departure.at,
                           filters.return_departure_window)
        /\ _in_time_window(return_segs[Len(return_segs)].arrival.at,
                           filters.return_arrival_window)

_passes_filters(offer, filters) ==
    LET outbound_segs == offer.itineraries[1].segments
        return_segs == offer.itineraries[2].segments
    IN  /\ ~(Len(outbound_segs) - 1 > filters.max_stops.v)
        /\ ~(Len(return_segs) - 1 > filters.max_stops.v)
        /\ _in_time_window(outbound_segs[1].departure.at,
                           filters.outbound_departure_window)
        /\ _in_time_window(outbound_segs[Len(outbound_segs)].arrival.at,
                           filters.outbound_arrival_window)
        /\ _in_time_window(return_segs[1].departure.at,
                           filters.return_departure_window)
        /\ _in_time_window(return_segs[Len(return_segs)].arrival.at,
                           filters.return_arrival_window)

(***************************************************************************)
(* Python floats.  float(o["price"]["total"]) parses the provider's price  *)
(* string into an IEEE 754 double, and sum, / and the comparisons of       *)
(* tasks.py work on doubles, each result rounded to nearest, ties to even. *)
(* A double is its 53-bit significand, held as limbs of 12 bits, and the   *)
(* exponent e of its last bit: the value is m * 2^e.  The prices are       *)
(* positive and far from the ends of the exponent range.                   *)
(***************************************************************************)
Precision == 53
LimbBits == 12
LimbBase == 4096

Zeros(n) == [i \in 1..n |-> 0]

\* The bits of a natural number below 2^31, most significant first.
Bits(n) == [i \in 1..31 |-> (n \div 2^(31 - i)) % 2]

\* A bit string without its leading zeros.
Strip(bits) ==
    IF \A i \in 1..Len(bits) : bits[i] = 0
    THEN <<>>
    ELSE SubSeq(bits, CHOOSE i \in 1..Len(bits) :
                          bits[i] = 1 /\ \A k \in 1..(i - 1) : bits[k] = 0,
                Len(bits))

\* A bit string as limbs of LimbBits bits, and back.
ToLimbs(bits) ==
    LET pad == (LimbBits - (Len(bits) % LimbBits)) % LimbBits
        b == Zeros(pad) \o bits
    IN  [j \in 1..(Len(b) \div LimbBits) |->
            LET at(k) == b[LimbBits * (j - 1) + k]
            IN  2048 * at(1) + 1024 * at(2) + 512 * at(3) + 256 * at(4)
                + 128 * at(5) + 64 * at(6) + 32 * at(7) + 16 * at(8)
                + 8 * at(9) + 4 * at(10) + 2 * at(11) + at(12)]

FromLimbs(limbs) ==
    [i \in 1..(LimbBits * Len(limbs)) |->
        (limbs[(i - 1) \div LimbBits + 1]
            \div 2^(LimbBits - 1 - ((i - 1) % LimbBits))) % 2]

\* a + b + carry on limb strings of one length, the carry out in front.
RECURSIVE AddLimbs(_, _, _)
AddLimbs(a, b, carry) ==
    IF a = <<>>
    THEN <<carry>>
    ELSE LET s == a[Len(a)] + b[Len(b)] + carry
         IN  Append(AddLimbs(SubSeq(a, 1, Len(a) - 1), SubSeq(b, 1, Len(b) - 1),
                             s \div LimbBase),
                    s % LimbBase)

AddBits(a, b, carry) ==
    LET n == IF Len(a) > Len(b) THEN Len(a) ELSE Len(b)
    IN  FromLimbs(AddLimbs(ToLimbs(Zeros(n - Len(a)) \o a),
                           ToLimbs(Zeros(n - Len(b)) \o b), carry))

\* Long division of a limb string by a small n: quotient and remainder.
RECURSIVE DivLimbs(_, _, _, _)
DivLimbs(limbs, n, q, r) ==
    IF limbs = <<>>
    THEN [q |-> q, r |-> r]
    ELSE LET cur == LimbBase * r + Head(limbs)
         IN  DivLimbs(Tail(limbs), n, Append(q, cur \div n), cur % n)

DivBits(bits, n) ==
    LET d == DivLimbs(ToLimbs(bits), n, <<>>, 0)
    IN  [q |-> FromLimbs(d.q), r |-> d.r]

\* Round to nearest, ties to even: the double nearest to bits * 2^e, or to
\* a little more than that when sticky (less than one unit of the last bit).
Round(bits0, e, sticky) ==
    LET bits == Strip(bits0)
        n == Len(bits)
    IN  IF n <= Precision
        THEN [m |-> ToLimbs(bits \o Zeros(Precision - n)), e |-> e - (Precision - n)]
        ELSE LET keep == SubSeq(bits, 1, Precision)
                 guard == bits[Precision + 1]
                 rest == sticky \/ \E i \in (Precision + 2)..n : bits[i] = 1
                 up == guard = 1 /\ (rest \/ keep[Precision] = 1)
                 m == IF up THEN Strip(AddBits(keep, <<>>, 1)) ELSE keep
             IN  [m |-> ToLimbs(SubSeq(m, 1, Precision)), e |-> e + (n - Len(m))]

Mantissa(x) == Strip(FromLimbs(x.m))

\* The parse of a price string of two decimals, "123.45", given by its
\* value in cents: the double nearest to cents / 100.
ParseFloat(cents) ==
    LET d == DivBits(Bits(cents) \o Zeros(64), 100)
    IN  Round(d.q, -64, d.r # 0)

\* The price strings of the provider's answers, and their doubles.
PriceStrings == {1025, 1050, 1070, 1073, 8000, 10000, 10070, 12000}

ParsedPrices == [cents \in PriceStrings |-> ParseFloat(cents)]

\* float(o["price"]["total"])
float(cents) == ParsedPrices[cents]

\* x + y on doubles.
FloatAdd(x, y) ==
    LET e == IF x.e < y.e THEN x.e ELSE y.e
    IN  Round(AddBits(Mantissa(x) \o Zeros(x.e - e), Mantissa(y) \o Zeros(y.e - e), 0),
              e, FALSE)

\* x / n for a double x and a small positive int n; a division by 1 or by
\* 2 is exact.
FloatDiv(x, n) ==
    IF n = 1 THEN x
    ELSE IF n = 2 THEN [x EXCEPT !.e = @ - 1]
    ELSE LET d == DivBits(Mantissa(x) \o Zeros(12), n)
         IN  Round(d.q, x.e - 12, d.r # 0)

LimbsLess(a, b) ==
    \E i \in 1..Len(a) : a[i] < b[i] /\ \A k \in 1..(i - 1) : a[k] = b[k]

\* x < y and x <= y on doubles.
FloatLess(x, y) == x.e < y.e \/ (x.e = y.e /\ LimbsLess(x.m, y.m))
FloatLeq(x, y) == ~FloatLess(y, x)

\* The fields of a flight option that the pipeline's decisions and the
\* result's shape rest on; duration_minutes and flight_numbers are carried
\* through unread and are left out.
_build_flight_option(itinerary, price) ==
    LET segments == itinerary.segments
    IN  [ departure_time |-> segments[1].departure.at,
          arrival_time |-> segments[Len(segments)].arrival.at,
          stops |-> Len(segments) - 1,
          airline |-> segments[1].carrierCode,
          price |-> price ]

\* sum(individual_totals) of a non-empty list of floats: 0 + s[1] is s[1],
\* and the rest is added from left to right.
RECURSIVE SumSeq(_)
SumSeq(s) ==
    IF Len(s) = 1
    THEN s[1]
    ELSE FloatAdd(SumSeq(SubSeq(s, 1, Len(s) - 1)), s[Len(s)])

SeqMin(s) ==
    CHOOSE x \in {s[i] : i \in 1..Len(s)} : \A i \in 1..Len(s) : FloatLeq(x, s[i])
SeqMax(s) ==
    CHOOSE x \in {s[i] : i \in 1..Len(s)} : \A i \in 1..Len(s) : FloatLeq(s[i], x)

\* A median that takes the lower of the two middle values.
LowerMedian(data) ==
    SortSeq(data, FloatLess)[(Len(data) + 1) \div 2]

\* statistics.median: the middle of the sorted data, or the mean of the two
\* middle values, (data[i - 1] + data[i]) / 2.
Median(data) ==
    LET sorted == SortSeq(data, FloatLess)
        n == Len(data)
    IN  IF n % 2 = 1
        THEN sorted[(n + 1) \div 2]
        ELSE FloatDiv(FloatAdd(sorted[n \div 2], sorted[n \div 2 + 1]), 2)

_compute_group_stats(individual_totals, currency) ==
    LET total == SumSeq(individual_totals)
    IN  [ currency |-> currency,
          individual_totals |-> individual_totals,
          total |-> total,
          average |-> FloatDiv(total, Len(individual_totals)),
          median |-> Median(individual_totals),
          cheapest |-> SeqMin(individual_totals),
          most_expensive |-> SeqMax(individual_totals) ]

\* The Location Resolver's answers and _get_destination_name (lines 83-90).
ResolverError == [t |-> "error"]
ResolverData(data) == [t |-> "ok", data |-> data]
ResolverAnswers ==
    { ResolverError, ResolverData(<<>>),
      ResolverData(<<[address |-> Absent]>>),
      ResolverData(<<[address |-> Dict([cityName |-> Absent])]>>),
      ResolverData(<<[address |-> Dict([cityName |-> Str("Cancun")])]>>) }

\* A resolver that gives no name when the lookup fails.
NameOrNothing(answer, iata_code) ==
    IF answer.t = "ok" /\ answer.data # <<>>
    THEN LET address == answer.data[1].address
         IN  IF address.t = "dict" /\ address.v.cityName.t # "absent"
             THEN address.v.cityName.v
             ELSE iata_code
    ELSE ""

_get_destination_name(answer, iata_code) ==
    IF answer.t = "ok" /\ answer.data # <<>>
    THEN LET address == answer.data[1].address
         IN  IF address.t = "dict" /\ address.v.cityName.t # "absent"
             THEN address.v.cityName.v
             ELSE iata_code
    ELSE iata_code

(***************************************************************************)
(* The Flight Search Provider's answers.                                   *)
(***************************************************************************)
Seg(dep, arr) ==
    [ departure |-> [at |-> At(dep)], arrival |-> [at |-> At(arr)],
      carrierCode |-> "AA", number |-> "100" ]

\* An offer; its price total is a string of two decimals, given in cents.
Offer(outbound_segs, return_segs, total) ==
    [ itineraries |-> << [segments |-> outbound_segs], [segments |-> return_segs] >>,
      price |-> [total |-> total, currency |-> "USD"] ]

DirectOffer(total) ==
    Offer(<<Seg(T0800, T1200)>>, <<Seg(T1200, T1830)>>, total)

OneStopOffer(total) ==
    Offer(<<Seg(T0800, T1200), Seg(T1200, T1830)>>, <<Seg(T0800, T1830)>>, total)

ProviderError == [t |-> "error"]            \* ResponseError
Response(data) == [t |-> "ok", data |-> data]

LifecycleAnswers == { ProviderError, Response(<<>>), Response(<<DirectOffer(10000)>>) }

PipelineAnswers ==
    { ProviderError,
      Response(<<OneStopOffer(8000)>>),
      Response(<<DirectOffer(12000)>>),
      Response(<<OneStopOffer(8000), DirectOffer(12000), DirectOffer(10070)>>) }

\* Python dicts keep insertion order: a dict is the sequence of its items.
DictHas(d, key) == \E k \in 1..Len(d) : d[k].key = key
DictGet(d, key, default) ==
    IF DictHas(d, key)
    THEN d[CHOOSE k \in 1..Len(d) : d[k].key = key].value
    ELSE default
DictSet(d, key, value) ==
    IF DictHas(d, key)
    THEN [k \in 1..Len(d) |-> IF d[k].key = key
                              THEN [key |-> key, value |-> value] ELSE d[k]]
    ELSE Append(d, [key |-> key, value |-> value])

(***************************************************************************)
(* The Job Queue: at-least-once delivery of job ids to the workers.        *)
(***************************************************************************)
WorkerIdle ==
    [ pc |-> "idle", job_id |-> 0, submission |-> Null,
      lookups |-> <<>>,       \* the codes the Location Resolver was asked
      lookup |-> Null,        \* its answer to the call in progress
      dest_names |-> <<>>,
      ti |-> 0, di |-> 0, results_by_dest |-> <<>>, calls |-> <<>>,
      job_result |-> Null,
      raised |-> "none",      \* the statement that raised into the handler
      outcome |-> "none" ]    \* how the run ended, set by its last statement

\* A worker takes a waiting message and starts run_flock_job(job_id).
Deliver(w) ==
    /\ worker[w].pc = "idle"
    /\ \E id \in JobIds :
         /\ queue[id] > 0
         /\ queue' = [queue EXCEPT ![id] = @ - 1]
         /\ delivered' = [delivered EXCEPT ![id] = @ + 1]
         /\ worker' = [worker EXCEPT ![w] =
                [WorkerIdle EXCEPT !.pc = "fetch", !.job_id = id]]
    /\ UNCHANGED << jobs, results, enqueued, redelivered, nextId, api, client >>

\* The broker hands out again a message it has already delivered.
Redeliver ==
    /\ redelivered < MaxRedeliver
    /\ \E id \in JobIds :
         /\ delivered[id] > 0
         /\ queue' = [queue EXCEPT ![id] = @ + 1]
    /\ redelivered' = redelivered + 1
    /\ UNCHANGED << jobs, results, enqueued, delivered, nextId, api, worker,
                    client >>

(***************************************************************************)
(* tasks.py: run_flock_job, one action per statement that touches the      *)
(* store or a collaborator.  An exception inside the try block moves the   *)
(* worker to the handler (line 227), which reads job_id only.              *)
(***************************************************************************)
Raise(me, at) ==
    [WorkerIdle EXCEPT !.pc = "handler", !.job_id = me.job_id, !.raised = at]

\* The task ends: run_flock_job returns, or raises again (line 240).
End(me, outcome) ==
    [WorkerIdle EXCEPT !.pc = "return", !.job_id = me.job_id, !.outcome = outcome]

\* update jobs set ... where id = %s: the row with that id, if any.
UpdateRow(id, Set(_)) ==
    jobs' = [jobs EXCEPT ![id] = IF @.status = "absent" THEN @ ELSE Set(@)]

\* Lines 104-109: fetch the submission; no row raises ValueError.
WorkerFetch(w) ==
    /\ worker[w].pc = "fetch"
    /\ \/ LET row == jobs[worker[w].job_id]
          IN  IF row.status = "absent"
              THEN worker' = [worker EXCEPT ![w] = Raise(@, "no row")]
              ELSE worker' = [worker EXCEPT ![w].pc = "mark_running",
                                            ![w].submission = row.submission]
       \/ worker' = [worker EXCEPT ![w] = Raise(@, "fetch")] \* the select raises
    /\ UNCHANGED << jobs, results, queue, enqueued, delivered, redelivered,
                    nextId, api, client >>

\* Lines 112-114: update jobs set status = 'running' where id = %s.
SetRunning(row) == [row EXCEPT !.status = "running"]

WorkerMarkRunning(w) ==
    /\ worker[w].pc = "mark_running"
    /\ \/ /\ UpdateRow(worker[w].job_id, SetRunning)
          /\ worker' = [worker EXCEPT ![w].pc = "resolve"]
       \/ /\ worker' = [worker EXCEPT ![w] = Raise(@, "mark_running")]  \* it raises
          /\ UNCHANGED jobs
    /\ UNCHANGED << results, queue, enqueued, delivered, redelivered, nextId,
                    api, client >>

\* Lines 118-132: the dict comprehension calls _get_destination_name for
\* the entries of the destination list in order.  WorkerResolve is the call
\* of the Location Resolver for the next entry (line 85), WorkerName the
\* rest of _get_destination_name and the store of the name in dest_names,
\* where a later entry with the same code overwrites the name.
WorkerResolve(w) ==
    /\ worker[w].pc = "resolve"
    /\ LET destinations == worker[w].submission.v.destinations.v
           dest == destinations[Len(worker[w].lookups) + 1]
       IN  \E answer \in ResolverAnswers :
             worker' = [worker EXCEPT ![w].pc = "name",
                                      ![w].lookups = Append(@, dest),
                                      ![w].lookup = answer]
    /\ UNCHANGED << jobs, results, queue, enqueued, delivered, redelivered,
                    nextId, api, client >>

WorkerName(w) ==
    /\ worker[w].pc = "name"
    /\ LET destinations == worker[w].submission.v.destinations.v
           dest == worker[w].lookups[Len(worker[w].lookups)]
           me == [worker[w] EXCEPT
                    !.lookup = Null,
                    !.dest_names =
                        DictSet(@, dest, _get_destination_name(worker[w].lookup, dest))]
       IN  worker' = [worker EXCEPT ![w] =
               IF Len(me.lookups) < Len(destinations)
               THEN [me EXCEPT !.pc = "resolve"]
               ELSE [me EXCEPT !.pc = "call", !.ti = 1, !.di = 1]]
    /\ UNCHANGED << jobs, results, queue, enqueued, delivered, redelivered,
                    nextId, api, client >>

\* A choice of the last offer of least total price.
LastBest(valid) ==
    valid[CHOOSE i \in 1..Len(valid) :
            /\ \A k \in 1..Len(valid) : valid[i].price.total <= valid[k].price.total
            /\ \A k \in (i + 1)..Len(valid) :
                   valid[i].price.total < valid[k].price.total]

\* min(valid, key=lambda o: float(o["price"]["total"])): the first offer
\* of least total price (line 167).
Best(valid) ==
    valid[FirstIdx(Len(valid),
                   LAMBDA i : \A k \in 1..Len(valid) :
                                  FloatLeq(float(valid[i].price.total),
                                           float(valid[k].price.total)))]

\* Lines 167-179.
TravelerFlight(traveler, best) ==
    LET total_price == float(best.price.total)
        leg_price == FloatDiv(total_price, 2)
    IN  [ traveler_name |-> traveler.name.v,
          origin |-> traveler.origin_airport.v,
          outbound |-> _build_flight_option(best.itineraries[1], leg_price),
          return |-> _build_flight_option(best.itineraries[2], leg_price),
          total_price |-> total_price,
          currency |-> best.price.currency ]

\* Lines 152-179 for one (traveler, destination) pair and one provider answer.
CallOutcome(traveler, answer) ==
    LET filters == traveler.filters.v
    IN  IF answer.t = "error"
        THEN [kind |-> "error"]                      \* except ResponseError
        ELSE IF answer.data # <<>> /\ MaxStopsRaises(filters)
        THEN [kind |-> "raise"]
        ELSE LET valid == SelectSeq(answer.data,
                                    LAMBDA o : _passes_filters(o, filters))
             IN  IF valid = <<>>
                 THEN [kind |-> "no offer"]           \* if not valid: continue
                 ELSE [kind |-> "flight",
                       flight |-> TravelerFlight(traveler, Best(valid))]

\* A loop body that puts the traveler's flight first in the list.
PrependFlight(results_by_dest, destination, traveler_flight) ==
    DictSet(results_by_dest, destination,
            <<traveler_flight>> \o DictGet(results_by_dest, destination, <<>>))

\* results_by_dest.setdefault(destination, []).append(traveler_flight)
AppendFlight(results_by_dest, destination, traveler_flight) ==
    DictSet(results_by_dest, destination,
            Append(DictGet(results_by_dest, destination, <<>>), traveler_flight))

\* The step of the two nested loops to the next destination, the next
\* traveler, or out of the loops (lines 134, 140).
NextPair(me, travelers, destinations) ==
    IF me.di < Len(destinations)
    THEN [me EXCEPT !.di = me.di + 1]
    ELSE IF me.ti < Len(travelers)
    THEN [me EXCEPT !.ti = me.ti + 1, !.di = 1]
    ELSE [me EXCEPT !.pc = "aggregate"]

\* A handler that gives up the traveler's remaining destinations.
NextTraveler(me, travelers, destinations) ==
    IF me.ti < Len(travelers)
    THEN [me EXCEPT !.ti = me.ti + 1, !.di = 1]
    ELSE [me EXCEPT !.pc = "aggregate"]

\* except ResponseError (lines 155-157): log and go on with the next pair.
OnProviderError(me, travelers, destinations) ==
    NextPair(me, travelers, destinations)

\* Lines 134-180: the body of the loops for the pair (ti, di).  calls
\* records, for each provider call made, its pair, the provider's answer
\* and what became of it.
WorkerCall(w, answers) ==
    /\ worker[w].pc = "call"
    /\ LET travelers == worker[w].submission.v.travelers.v
           destinations == worker[w].submission.v.destinations.v
           traveler == travelers[worker[w].ti]
           destination == destinations[worker[w].di]
       IN  \E answer \in answers :
             LET out == CallOutcome(traveler, answer)
                 me == [worker[w] EXCEPT !.calls =
                           Append(@, [ti |-> worker[w].ti, di |-> worker[w].di,
                                      answer |-> answer, kind |-> out.kind])]
             IN  worker' = [worker EXCEPT ![w] =
                     CASE out.kind = "raise" -> Raise(me, "call")
                       [] out.kind = "error" ->
                            OnProviderError(me, travelers, destinations)
                       [] out.kind = "no offer" ->
                            NextPair(me, travelers, destinations)
                       [] out.kind = "flight" ->
                            NextPair([me EXCEPT !.results_by_dest =
                                         AppendFlight(@, destination, out.flight)],
                                     travelers, destinations)]
    /\ UNCHANGED << jobs, results, queue, enqueued, delivered, redelivered,
                    nextId, api, client >>

\* Lines 183-203: a destination is kept when it has as many traveler
\* flights as the submission has travelers.
Covered(traveler_flights, travelers) ==
    ~(Len(traveler_flights) # Len(travelers))

DestinationResult(dest, traveler_flights, dest_names) ==
    [ destination |-> dest,
      destination_name |-> DictGet(dest_names, dest, dest),
      traveler_flights |-> traveler_flights,
      group_stats |-> _compute_group_stats(
          [i \in 1..Len(traveler_flights) |-> traveler_flights[i].total_price],
          traveler_flights[1].currency) ]

Aggregate(results_by_dest, travelers, dest_names) ==
    LET kept == SelectSeq(results_by_dest, LAMBDA e : Covered(e.value, travelers))
    IN  [k \in 1..Len(kept) |->
            DestinationResult(kept[k].key, kept[k].value, dest_names)]

\* Lines 205-211.
JobResult(job_id, destination_results) ==
    Dict([ job_id |-> job_id, status |-> "complete", completed_at |-> Null,
           error |-> Null, destinations |-> destination_results ])

WorkerAggregate(w) ==
    /\ worker[w].pc = "aggregate"
    /\ worker' = [worker EXCEPT
           ![w].pc = "write_complete",
           ![w].job_result =
               JobResult(worker[w].job_id,
                         Aggregate(worker[w].results_by_dest,
                                   worker[w].submission.v.travelers.v,
                                   worker[w].dest_names))]
    /\ UNCHANGED << jobs, results, queue, enqueued, delivered, redelivered,
                    nextId, api, client >>

\* Lines 214-223, one transaction: insert into results (job_id, data), and
\* update jobs set status = 'complete', completed_at = now().  The result
\* is stored as json.dumps writes it and read back as it was written.  The
\* transaction may raise (a constraint of the results table included, whose
\* schema is not part of the sources) and then changes nothing.
SetComplete(row) == [row EXCEPT !.status = "complete", !.completed_at = Str("now")]

InsertResult(id, data) == results' = [results EXCEPT ![id] = Append(@, data)]

WorkerWriteComplete(w) ==
    /\ worker[w].pc = "write_complete"
    /\ \/ /\ InsertResult(worker[w].job_id, worker[w].job_result)
          /\ UpdateRow(worker[w].job_id, SetComplete)
          /\ worker' = [worker EXCEPT ![w] = End(@, "complete")]
       \/ /\ worker' = [worker EXCEPT ![w] = Raise(@, "write_complete")]
          /\ UNCHANGED << jobs, results >>
    /\ UNCHANGED << queue, enqueued, delivered, redelivered, nextId, api, client >>

\* Lines 227-240: update jobs set status = 'failed', error = traceback; when
\* that update raises too, the error is logged only (lines 238-239).  Then
\* the exception is raised again and the task ends.
\* A handler that stores the traceback and leaves the status.
SetErrorOnly(row) == [row EXCEPT !.error = Str("Traceback")]

SetFailed(row) == [row EXCEPT !.status = "failed", !.error = Str("Traceback")]

RecordFailure(w) ==
    \/ /\ UpdateRow(worker[w].job_id, SetFailed)
       /\ worker' = [worker EXCEPT ![w] = End(@, "failed")]
    \/ /\ worker' = [worker EXCEPT ![w] = End(@, "failure not recorded")]
       /\ UNCHANGED jobs

WorkerHandler(w) ==
    /\ worker[w].pc = "handler"
    /\ RecordFailure(w)
    /\ UNCHANGED << results, queue, enqueued, delivered, redelivered, nextId,
                    api, client >>

\* The task has ended; the worker waits for the next message.
WorkerReturn(w) ==
    /\ worker[w].pc = "return"
    /\ worker' = [worker EXCEPT ![w] = WorkerIdle]
    /\ UNCHANGED << jobs, results, queue, enqueued, delivered, redelivered,
                    nextId, api, client >>

(***************************************************************************)
(* routes/jobs.py: get_job.                                                *)
(***************************************************************************)
ClientIdle == [ pc |-> "idle", job_id |-> 0, row |-> NoRow, response |-> NoResponse ]

\* Lines 101-108.
StatusResponse(id, row) ==
    [ code |-> 200, job_id |-> id, status |-> row.status,
      created_at |-> row.created_at, completed_at |-> row.completed_at,
      error |-> row.error, result |-> Absent ]

\* Lines 89-99 and 110: select the jobs row; 404 when there is none, the
\* second select when the status is complete.
AfterSelect(id, row) ==
    IF row.status = "absent"
    THEN [ pc |-> "done", job_id |-> id, row |-> row,
           response |-> [code |-> 404, error |-> "Job not found"] ]
    ELSE IF row.status = "complete"
    THEN [ pc |-> "results", job_id |-> id, row |-> row, response |-> NoResponse ]
    ELSE [ pc |-> "done", job_id |-> id, row |-> row,
           response |-> StatusResponse(id, row) ]

GetJobSelect ==
    /\ client.pc = "idle"
    /\ \E id \in JobIds : client' = AfterSelect(id, jobs[id])
    /\ UNCHANGED << jobs, results, queue, enqueued, delivered, redelivered,
                    nextId, api, worker >>

\* Lines 111-117: select data from results where job_id = %s; fetchone
\* gives one of the rows, the response carries it when there is one.
\* A get_job that never reads the result.
AttachNothing(response, rows, k) == response

AttachResult(response, rows, k) ==
    IF rows # <<>> THEN [response EXCEPT !.result = rows[k]] ELSE response

GetJobResults ==
    /\ client.pc = "results"
    /\ LET rows == results[client.job_id]
       IN  \E k \in 1..(IF rows = <<>> THEN 1 ELSE Len(rows)) :
             client' = [client EXCEPT
                 !.pc = "done",
                 !.response = AttachResult(StatusResponse(client.job_id, client.row),
                                           rows, k)]
    /\ UNCHANGED << jobs, results, queue, enqueued, delivered, redelivered,
                    nextId, api, worker >>

\* The response has been sent.
GetJobReturn ==
    /\ client.pc = "done"
    /\ client' = ClientIdle
    /\ UNCHANGED << jobs, results, queue, enqueued, delivered, redelivered,
                    nextId, api, worker >>

(***************************************************************************)
(* The whole system: submissions, the queue, the workers, status requests. *)
(***************************************************************************)
Init ==
    /\ jobs = [id \in JobIds |-> NoRow]
    /\ results = [id \in JobIds |-> <<>>]
    /\ queue = [id \in JobIds |-> 0]
    /\ enqueued = [id \in JobIds |-> 0]
    /\ delivered = [id \in JobIds |-> 0]
    /\ redelivered = 0
    /\ nextId = 1
    /\ api = ApiIdle
    /\ worker = [w \in Workers |-> WorkerIdle]
    /\ client = ClientIdle

WorkerStep(w, answers) ==
    \/ WorkerFetch(w)
    \/ WorkerMarkRunning(w)
    \/ WorkerResolve(w)
    \/ WorkerName(w)
    \/ WorkerCall(w, answers)
    \/ WorkerAggregate(w)
    \/ WorkerWriteComplete(w)
    \/ WorkerHandler(w)
    \/ WorkerReturn(w)

Next ==
    \/ CreateJobRequest(LifecyclePayloads, MaxJobs)
    \/ CreateJobInsert
    \/ CreateJobEnqueue
    \/ CreateJobReturn
    \/ Redeliver
    \/ \E w \in Workers : Deliver(w)
    \/ \E w \in Workers : WorkerStep(w, LifecycleAnswers)

Spec == Init /\ [][Next]_vars

(***************************************************************************)
(* The system with status requests: one accepted submission, delivered     *)
(* and delivered again, while get_job is called at any point.              *)
(***************************************************************************)
NextStatus ==
    \/ CreateJobRequest(LifecyclePayloads, StatusJobs)
    \/ CreateJobInsert
    \/ CreateJobEnqueue
    \/ CreateJobReturn
    \/ Redeliver
    \/ \E w \in Workers : Deliver(w)
    \/ \E w \in Workers : WorkerStep(w, LifecycleAnswers)
    \/ GetJobSelect
    \/ GetJobResults
    \/ GetJobReturn

SpecStatus == Init /\ [][NextStatus]_vars

(***************************************************************************)
(* The submission endpoint alone, over the validation inputs.              *)
(***************************************************************************)
NextApi ==
    \/ CreateJobRequest(ValidationPayloads, MaxJobs)
    \/ CreateJobInsert
    \/ CreateJobEnqueue
    \/ CreateJobReturn

SpecApi == Init /\ [][NextApi]_vars

(***************************************************************************)
(* The pipeline: submissions of several travelers and destinations, each   *)
(* delivered once to the first worker, over the pipeline's answers.        *)
(***************************************************************************)
NextPipeline ==
    \/ CreateJobRequest(PipelinePayloads, PipelineJobs)
    \/ CreateJobInsert
    \/ CreateJobEnqueue
    \/ CreateJobReturn
    \/ Deliver(1)
    \/ WorkerStep(1, PipelineAnswers)

SpecPipeline == Init /\ [][NextPipeline]_vars

(***************************************************************************)
(* The Offer Filter alone (tasks.py lines 26-54): worker 1 holds an offer  *)
(* and a Filters object, applies _passes_filters, and the filters are then *)
(* tightened one step at a time: max_stops lowered, a window added where   *)
(* there was none, or a window narrowed.                                   *)
(***************************************************************************)
T2359 == <<2, 3, 10, 5, 9, 10, 0, 0>>

\* An itinerary of the given number of stops; the connections are at 23:59.
Leg(dep, arr, stops) ==
    [i \in 1..(stops + 1) |->
        Seg(IF i = 1 THEN dep ELSE T2359, IF i = stops + 1 THEN arr ELSE T2359)]

FilterLegs ==
    { Leg(T0800, T1200, 0), Leg(T1200, T1830, 1), Leg(T0800, T1830, 2),
      Leg(T1200, T1200, 0) }

FilterOffers == { Offer(out, ret, 10000) : out \in FilterLegs, ret \in FilterLegs }

\* "HH:MM" of a timestamp's time, and the windows between such times.
HHMM(time) == Str(SubSeq(time, 1, 5))

\* Minutes since midnight of an "HH:MM" string.
Minutes(hhmm) == (10 * hhmm[1] + hhmm[2]) * 60 + 10 * hhmm[4] + hhmm[5]

FilterWindows ==
    { Window(HHMM(T0800), HHMM(T1830)), Window(HHMM(T0800), HHMM(T1200)),
      Window(HHMM(T1200), HHMM(T1830)), Window(HHMM(T1200), HHMM(T1200)) }

\* w2 lies within w1, by the clock.
Narrower(w1, w2) ==
    /\ w2 # w1
    /\ Minutes(w2.v.earliest.v) >= Minutes(w1.v.earliest.v)
    /\ Minutes(w2.v.latest.v) <= Minutes(w1.v.latest.v)

\* The Filters objects one tightening step away from filters.
Tightenings(filters) ==
    { [filters EXCEPT !.max_stops = Num(filters.max_stops.v - 1)] :
        k \in {1} \cap 1..filters.max_stops.v }
    \cup { [filters EXCEPT ![_TIME_WINDOW_FIELDS[k]] = w] :
             k \in { i \in 1..4 : filters[_TIME_WINDOW_FIELDS[i]].t \in {"absent", "null"} },
             w \in FilterWindows }
    \cup UNION { { [filters EXCEPT ![_TIME_WINDOW_FIELDS[k]] = w] :
                     w \in { v \in FilterWindows :
                                Narrower(filters[_TIME_WINDOW_FIELDS[k]], v) } } :
                   k \in { i \in 1..4 : filters[_TIME_WINDOW_FIELDS[i]].t = "dict" } }

\* The loosest filters: any number of stops the offers have, no window (the
\* keys left out, or null).
LoosestFilters ==
    { Filters(Num(2)),
      [Filters(Num(2)) EXCEPT !.outbound_departure_window = Null,
                              !.outbound_arrival_window = Null,
                              !.return_departure_window = Null,
                              !.return_arrival_window = Null] }

FilterRun(offer, filters, prev) ==
    [ pc |-> "filter", offer |-> offer, filters |-> filters,
      passes |-> FALSE,      \* the value _passes_filters returned
      prev |-> prev ]        \* its value under the filters before the last step

InitFilter ==
    /\ jobs = [id \in JobIds |-> NoRow]
    /\ results = [id \in JobIds |-> <<>>]
    /\ queue = [id \in JobIds |-> 0]
    /\ enqueued = [id \in JobIds |-> 0]
    /\ delivered = [id \in JobIds |-> 0]
    /\ redelivered = 0
    /\ nextId = 1
    /\ api = ApiIdle
    /\ client = ClientIdle
    /\ \E offer \in FilterOffers, filters \in LoosestFilters :
         worker = [w \in Workers |->
                      IF w = 1 THEN FilterRun(offer, filters, "none") ELSE WorkerIdle]

\* valid = [o for o in response.data if _passes_filters(o, filters)], for
\* one offer o.
ApplyFilters ==
    /\ worker[1].pc = "filter"
    /\ worker' = [worker EXCEPT
           ![1].pc = "filtered",
           ![1].passes = _passes_filters(worker[1].offer, worker[1].filters)]
    /\ UNCHANGED << jobs, results, queue, enqueued, delivered, redelivered,
                    nextId, api, client >>

TightenFilters ==
    /\ worker[1].pc = "filtered"
    /\ \E tighter \in Tightenings(worker[1].filters) :
         worker' = [worker EXCEPT ![1] =
             FilterRun(worker[1].offer, tighter,
                       IF worker[1].passes THEN "passed" ELSE "failed")]
    /\ UNCHANGED << jobs, results, queue, enqueued, delivered, redelivered,
                    nextId, api, client >>

NextFilter == ApplyFilters \/ TightenFilters

SpecFilter == InitFilter /\ [][NextFilter]_vars

(***************************************************************************)
(* The choice of a traveler's flight (tasks.py lines 152-180): one          *)
(* submission of one traveler and one destination, delivered once, over    *)
(* filters with and without windows and over answers in which offers share *)
(* the least price.                                                        *)
(***************************************************************************)
SelectFilters ==
    { Filters(Num(0)), Filters(Num(1)),
      [Filters(Num(1)) EXCEPT
           !.outbound_departure_window = Window(HHMM(T1200), HHMM(T1830))],
      [Filters(Num(0)) EXCEPT
           !.return_departure_window = Window(HHMM(T1200), HHMM(T1200))],
      [Filters(Num(0)) EXCEPT
           !.outbound_arrival_window = Window(HHMM(T0800), HHMM(T1200)),
           !.return_arrival_window = Null] }

SelectPayloads ==
    { Submission(List(<<[Traveler(1, Num(0)) EXCEPT !.filters = Dict(filters)]>>),
                 List(<<"CUN">>)) : filters \in SelectFilters }

MorningOffer(total) == Offer(Leg(T0800, T1200, 0), Leg(T1200, T1830, 0), total)
AfternoonOffer(total) == Offer(Leg(T1200, T1830, 0), Leg(T0800, T1200, 0), total)
ConnectingOffer(total) == Offer(Leg(T0800, T1200, 1), Leg(T1200, T1830, 0), total)

SelectAnswers ==
    { ProviderError, Response(<<>>),
      Response(<<ConnectingOffer(8000)>>),
      Response(<<ConnectingOffer(8000), MorningOffer(12000),
                 MorningOffer(10070), AfternoonOffer(10070)>>),
      Response(<<AfternoonOffer(10070), ConnectingOffer(8000),
                 MorningOffer(10070), AfternoonOffer(8000)>>),
      Response(<<MorningOffer(12000), AfternoonOffer(10000),
                 ConnectingOffer(10000)>>) }

NextSelect ==
    \/ CreateJobRequest(SelectPayloads, PipelineJobs)
    \/ CreateJobInsert
    \/ CreateJobEnqueue
    \/ CreateJobReturn
    \/ Deliver(1)
    \/ WorkerStep(1, SelectAnswers)

SpecSelect == Init /\ [][NextSelect]_vars

(***************************************************************************)
(* _compute_group_stats alone (tasks.py lines 70-80): worker 1 holds the   *)
(* individual_totals of a destination, the total_price floats of its       *)
(* traveler flights, and computes the group's statistics.  On these prices *)
(* the compensated sum() of Python 3.12 and the plain left-to-right sum of *)
(* earlier versions give the same doubles for lists of up to four values.  *)
(***************************************************************************)
MaxTotals == 3

StatsPrices == {1025, 1050, 1070, 1073}

StatsTotals ==
    UNION { [1..n -> {float(cents) : cents \in StatsPrices}] : n \in 1..MaxTotals }

StatsRun(individual_totals) ==
    [ pc |-> "stats", individual_totals |-> individual_totals,
      group_stats |-> Null ]

InitStats ==
    /\ jobs = [id \in JobIds |-> NoRow]
    /\ results = [id \in JobIds |-> <<>>]
    /\ queue = [id \in JobIds |-> 0]
    /\ enqueued = [id \in JobIds |-> 0]
    /\ delivered = [id \in JobIds |-> 0]
    /\ redelivered = 0
    /\ nextId = 1
    /\ api = ApiIdle
    /\ client = ClientIdle
    /\ \E individual_totals \in StatsTotals :
         worker = [w \in Workers |->
                      IF w = 1 THEN StatsRun(individual_totals) ELSE WorkerIdle]

\* "group_stats": _compute_group_stats(individual_totals, currency)
ApplyStats ==
    /\ worker[1].pc = "stats"
    /\ worker' = [worker EXCEPT
           ![1].pc = "computed",
           ![1].group_stats =
               _compute_group_stats(worker[1].individual_totals, "USD")]
    /\ UNCHANGED << jobs, results, queue, enqueued, delivered, redelivered,
                    nextId, api, client >>

NextStats == ApplyStats

SpecStats == InitStats /\ [][NextStats]_vars

(***************************************************************************)
(* The claims.                                                             *)
(***************************************************************************)
\* C1: terminal states are final and never revert; in particular, once the
\* stored status of a job is complete, no later step, of a run delivered
\* again included, takes it back to pending or running.
C1_TerminalStatesFinal ==
    [][\A id \in JobIds :
          jobs[id].status = "complete"
              => jobs'[id].status \notin {"pending", "running"}]_vars

\* C2: running is never skipped: a run of run_flock_job whose 'running'
\* update raises does not move the job from pending directly to failed.
C2_RunningNeverSkipped ==
    [][\A w \in Workers :
          ( /\ worker[w].pc = "handler"
            /\ worker[w].raised = "mark_running"
            /\ jobs[worker[w].job_id].status = "pending" )
          => jobs'[worker[w].job_id].status # "failed"]_vars

\* C3: in every state a job has a Result record if and only if its status
\* is complete, and never more than one.
C3_ResultIffComplete ==
    \A id \in JobIds :
        /\ (results[id] # <<>>) <=> (jobs[id].status = "complete")
        /\ Len(results[id]) <= 1

\* What a run knows when it is about to write its result: the provider
\* calls it made, and the destinations of the result it built.
Travelers(w) == worker[w].submission.v.travelers.v
Destinations(w) == worker[w].submission.v.destinations.v
ResultDestinations(w) == worker[w].job_result.v.destinations

\* Traveler t obtained a filter-surviving offer for the destination code.
Qualified(w, t, code) ==
    \E k \in 1..Len(worker[w].calls) :
        /\ worker[w].calls[k].ti = t
        /\ Destinations(w)[worker[w].calls[k].di] = code
        /\ worker[w].calls[k].kind = "flight"

\* The provider failed for traveler t and the destination code.
Failed(w, t, code) ==
    \E k \in 1..Len(worker[w].calls) :
        /\ worker[w].calls[k].ti = t
        /\ Destinations(w)[worker[w].calls[k].di] = code
        /\ worker[w].calls[k].kind = "error"

Included(w, code) ==
    \E k \in 1..Len(ResultDestinations(w)) :
        ResultDestinations(w)[k].destination = code

\* C4: group coverage: a destination is in the result of a run if and only
\* if every traveler obtained a qualifying offer for it, and then its
\* traveler_flights holds exactly one TravelerFlight per traveler.
C4_GroupCoverage ==
    \A w \in Workers :
        worker[w].pc = "write_complete" =>
            /\ \A d \in 1..Len(Destinations(w)) :
                   Included(w, Destinations(w)[d])
                   <=> \A t \in 1..Len(Travelers(w)) :
                           Qualified(w, t, Destinations(w)[d])
            /\ \A k \in 1..Len(ResultDestinations(w)) :
                   LET tfs == ResultDestinations(w)[k].traveler_flights
                   IN  /\ Len(tfs) = Len(Travelers(w))
                       /\ \A t \in 1..Len(tfs) :
                              tfs[t].traveler_name = Travelers(w)[t].name.v

\* C5: a provider error is not fatal and the failing pair contributes no
\* flight: a destination for which the provider failed some traveler, who
\* obtained no offer for it, is excluded from the result.
C5_FailedPairExcludes ==
    \A w \in Workers :
        worker[w].pc = "write_complete" =>
            \A d \in 1..Len(Destinations(w)), t \in 1..Len(Travelers(w)) :
                ( /\ Failed(w, t, Destinations(w)[d])
                  /\ ~Qualified(w, t, Destinations(w)[d]) )
                => ~Included(w, Destinations(w)[d])

\* The statement with which a run of run_flock_job ends.
RunEnds(w) == worker[w].pc # "return" /\ worker'[w].pc = "return"

\* C6 as claimed: no run of run_flock_job returns leaving the job in a
\* status that is not terminal: failed after an error, complete otherwise.
C6_EveryRunEndsTerminal ==
    [][\A w \in Workers :
          RunEnds(w) =>
              /\ jobs'[worker[w].job_id].status \in Terminal
              /\ worker[w].pc = "handler"
                     => jobs'[worker[w].job_id].status = "failed"
              /\ worker[w].pc = "write_complete"
                     => jobs'[worker[w].job_id].status = "complete"]_vars

\* C6 as amended: a run ends with the write of complete when nothing
\* raised, and in the handler otherwise; the handler leaves the job failed
\* with a non-empty error description unless its own update raises, and
\* then the job is left as it was.
C6_RunEndsRecorded ==
    [][\A w \in Workers :
          RunEnds(w) =>
              LET id == worker[w].job_id
                  how == worker'[w].outcome
              IN  \/ /\ worker[w].pc = "write_complete"
                     /\ how = "complete"
                     /\ jobs'[id].status = "complete"
                  \/ /\ worker[w].pc = "handler"
                     /\ how = "failed"
                     /\ jobs'[id].status = "failed"
                     /\ jobs'[id].error.t = "str"
                     /\ jobs'[id].error.v # ""
                  \/ /\ worker[w].pc = "handler"
                     /\ how = "failure not recorded"
                     /\ jobs'[id] = jobs[id]
                     /\ jobs[id].status \in {"pending", "running"}
                            \/ delivered[id] > 1]_vars

\* A run has ended without a record of its failure, the job still running.
C6_Witness ==
    \E w \in Workers :
        /\ worker[w].pc = "return"
        /\ worker[w].outcome = "failure not recorded"
        /\ jobs[worker[w].job_id].status = "running"

\* C7: a submission rejected by validation has no effect: when create_job
\* answers 400, no row is inserted, no id is minted and nothing is enqueued.
C7_RejectionHasNoEffect ==
    [][(api.pc = "idle" /\ api'.pc = "done" /\ api'.response.code = 400)
          => UNCHANGED << jobs, results, queue, enqueued, nextId >>]_vars

\* create_job has answered that "travelers" is missing.
C7_Witness ==
    /\ api.pc = "done"
    /\ api.response.code = 400
    /\ api.response.error.kind = "Missing required field"
    /\ api.response.error.field = "travelers"
    /\ \A id \in JobIds : jobs[id] = NoRow /\ queue[id] = 0

\* C8: every job with a Jobs record, once create_job is through with it,
\* has been enqueued exactly once.
C8_EnqueuedExactlyOnce ==
    \A id \in JobIds :
        ( /\ jobs[id].status # "absent"
          /\ ~(api.pc = "enqueue" /\ api.job_id = id) )
        => enqueued[id] = 1

\* C9: get_job answers 404 exactly when no jobs row has the id, and the
\* stored status otherwise; its response carries a result the store holds
\* for the job when the status it reports is complete, and none when that
\* status is pending, running or failed.
C9_StatusEndpoint ==
    [][/\ (client.pc = "idle" /\ client'.pc # "idle") =>
              /\ (client'.pc = "done" /\ client'.response.code = 404)
                     <=> (jobs[client'.job_id].status = "absent")
              /\ client'.row = jobs[client'.job_id]
       /\ (client.pc # "done" /\ client'.pc = "done"
               /\ client'.response.code = 200) =>
              LET r == client'.response
              IN  /\ r.job_id = client'.job_id
                  /\ r.status = client'.row.status
                  /\ r.status = "complete" =>
                         /\ r.result.t = "dict"
                         /\ r.result.v.job_id = r.job_id
                         /\ \E k \in 1..Len(results[r.job_id]) :
                                results[r.job_id][k] = r.result
                  /\ r.status # "complete" => r.result.t = "absent"]_vars

\* get_job answers complete, with the result, while a second run of the
\* job has set the stored status to running.
C9_Witness ==
    /\ client.pc = "done"
    /\ client.response.code = 200
    /\ client.response.status = "complete"
    /\ client.response.result.t = "dict"
    /\ jobs[client.job_id].status = "running"

\* C10: every payload that lacks the "travelers" field is rejected with a
\* validation error that names "travelers" as missing.
C10_MissingTravelersNamed ==
    ( /\ api.pc = "done"
      /\ api.data.t = "dict"
      /\ api.data.v.travelers.t = "absent" )
    => /\ api.response.code = 400
       /\ api.response.error.kind = "Missing required field"
       /\ api.response.error.field = "travelers"

\* C11: completed_at is set only on a job whose status is terminal (and
\* error only on a failed one): a job that is pending or running has no
\* completed_at.
C11_CompletedAtOnlyTerminal ==
    \A id \in JobIds :
        jobs[id].completed_at # Null => jobs[id].status \in Terminal

\* C12: filtering is monotonic: an offer that fails under some filters
\* still fails after max_stops is lowered, a window is added or a window is
\* narrowed; the offers that pass under the tighter filters are among
\* those that passed before.
C12_FilteringMonotonic ==
    (worker[1].pc = "filtered" /\ worker[1].prev = "failed") => ~worker[1].passes

\* Tightening the filters has dropped an offer that passed before.
C12_Witness ==
    /\ worker[1].pc = "filtered"
    /\ worker[1].prev = "passed"
    /\ ~worker[1].passes
    /\ worker[1].filters.return_arrival_window.t = "dict"

\* The four times of an offer that the filter reads, with their windows.
FilteredTimes(offer, filters) ==
    LET out == offer.itineraries[1].segments
        ret == offer.itineraries[2].segments
    IN  << [time |-> out[1].departure.at.time,
            window |-> filters.outbound_departure_window],
           [time |-> out[Len(out)].arrival.at.time,
            window |-> filters.outbound_arrival_window],
           [time |-> ret[1].departure.at.time,
            window |-> filters.return_departure_window],
           [time |-> ret[Len(ret)].arrival.at.time,
            window |-> filters.return_arrival_window] >>

\* A time lies in a window, bounds included, by the clock.
InWindow(time, window) ==
    /\ Minutes(window.v.earliest.v) <= Minutes(time)
    /\ Minutes(time) <= Minutes(window.v.latest.v)

\* C13: an offer passes the filter if and only if both legs have at most
\* max_stops stops and each of the four times lies in its window when the
\* window is set, a time equal to earliest or to latest included; a window
\* that is absent is satisfied by every time.
C13_PassesIffWithinLimits ==
    worker[1].pc = "filtered" =>
        LET offer == worker[1].offer
            filters == worker[1].filters
            checks == FilteredTimes(offer, filters)
        IN  worker[1].passes <=>
                /\ \A i \in 1..2 :
                       Len(offer.itineraries[i].segments) - 1 <= filters.max_stops.v
                /\ \A k \in 1..4 :
                       checks[k].window.t = "dict"
                           => InWindow(checks[k].time, checks[k].window)

\* An offer has passed with a time equal to the latest bound of one window
\* and a time equal to the earliest bound of another.
C13_Witness ==
    /\ worker[1].pc = "filtered"
    /\ worker[1].passes
    /\ LET checks == FilteredTimes(worker[1].offer, worker[1].filters)
       IN  /\ \E k \in 1..4 :
                  /\ checks[k].window.t = "dict"
                  /\ HHMM(checks[k].time) = checks[k].window.v.latest
                  /\ checks[k].window.v.earliest # checks[k].window.v.latest
           /\ \E k \in 1..4 :
                  /\ checks[k].window.t = "dict"
                  /\ HHMM(checks[k].time) = checks[k].window.v.earliest
                  /\ checks[k].window.v.earliest # checks[k].window.v.latest
           /\ \E k \in 1..4 : checks[k].window.t \in {"absent", "null"}

\* The sum of the first k values of s, added one after the other.
RECURSIVE LeftSum(_, _)
LeftSum(s, k) == IF k = 1 THEN s[1] ELSE FloatAdd(LeftSum(s, k - 1), s[k])

\* The orders of 1..n in which the values of s do not decrease.
SortedOrders(s) ==
    { p \in [1..Len(s) -> 1..Len(s)] :
        /\ \A i, j \in 1..Len(s) : i # j => p[i] # p[j]
        /\ \A i \in 1..(Len(s) - 1) : FloatLeq(s[p[i]], s[p[i + 1]]) }

\* The middle value of s, or the mean of its two middle values.
Middles(s) ==
    LET n == Len(s)
    IN  { IF n % 2 = 1
          THEN s[p[(n + 1) \div 2]]
          ELSE FloatDiv(FloatAdd(s[p[n \div 2]], s[p[n \div 2 + 1]]), 2) :
          p \in SortedOrders(s) }

StatsAsDefined(st, s) ==
    /\ st.individual_totals = s
    /\ st.total = LeftSum(s, Len(s))
    /\ st.average = FloatDiv(st.total, Len(s))
    /\ st.median \in Middles(s)
    /\ \E i \in 1..Len(s) : st.cheapest = s[i]
    /\ \A i \in 1..Len(s) : FloatLeq(st.cheapest, s[i])
    /\ \E i \in 1..Len(s) : st.most_expensive = s[i]
    /\ \A i \in 1..Len(s) : FloatLeq(s[i], st.most_expensive)
    /\ FloatLeq(st.cheapest, st.median)
    /\ FloatLeq(st.median, st.most_expensive)

AverageWithinRange(st) ==
    FloatLeq(st.cheapest, st.average) /\ FloatLeq(st.average, st.most_expensive)

Survives(offer, filters) ==
    LET checks == FilteredTimes(offer, filters)
    IN  /\ \A i \in 1..2 :
               Len(offer.itineraries[i].segments) - 1 <= filters.max_stops.v
        /\ \A k \in 1..4 :
               checks[k].window.t = "dict"
                   => InWindow(checks[k].time, checks[k].window)

\* The positions of the surviving offers of a response.
Survivors(data, filters) ==
    { k \in 1..Len(data) : Survives(data[k], filters) }

\* A TravelerFlight is the one built from an offer for a traveler.
BuiltFrom(flight, offer, traveler) ==
    LET out == offer.itineraries[1].segments
        ret == offer.itineraries[2].segments
    IN  /\ flight.traveler_name = traveler.name.v
        /\ flight.origin = traveler.origin_airport.v
        /\ flight.total_price = float(offer.price.total)
        /\ flight.currency = offer.price.currency
        /\ flight.outbound.departure_time = out[1].departure.at
        /\ flight.outbound.arrival_time = out[Len(out)].arrival.at
        /\ flight.outbound.stops = Len(out) - 1
        /\ flight.return.departure_time = ret[1].departure.at
        /\ flight.return.arrival_time = ret[Len(ret)].arrival.at
        /\ flight.return.stops = Len(ret) - 1

\* C15: after the provider has answered the pair's query with offers, the
\* TravelerFlight recorded for the pair is built from a surviving offer of
\* least total price, the earliest such offer of the response; when no
\* offer survives, none is recorded.
C15_FirstCheapestSurvivor ==
    (worker[1].pc = "aggregate" /\ worker[1].calls[1].answer.t = "ok") =>
        LET traveler == worker[1].submission.v.travelers.v[1]
            data == worker[1].calls[1].answer.data
            surviving == Survivors(data, traveler.filters.v)
        IN  IF surviving = {}
            THEN worker[1].results_by_dest = <<>>
            ELSE \E k \in surviving :
                   /\ \A j \in surviving :
                          data[k].price.total <= data[j].price.total
                   /\ \A j \in surviving :
                          j < k => data[j].price.total > data[k].price.total
                   /\ Len(worker[1].results_by_dest) = 1
                   /\ worker[1].results_by_dest[1].key = "CUN"
                   /\ Len(worker[1].results_by_dest[1].value) = 1
                   /\ BuiltFrom(worker[1].results_by_dest[1].value[1],
                                data[k], traveler)

\* Two surviving offers share the least price, a cheaper offer before them
\* does not survive, and the flight recorded is the first of the two.
C15_Witness ==
    /\ worker[1].pc = "aggregate"
    /\ worker[1].calls[1].answer.t = "ok"
    /\ Len(worker[1].results_by_dest) = 1
    /\ LET traveler == worker[1].submission.v.travelers.v[1]
           data == worker[1].calls[1].answer.data
           surviving == Survivors(data, traveler.filters.v)
           flight == worker[1].results_by_dest[1].value[1]
       IN  \E i, j \in surviving, c \in 1..Len(data) :
             /\ c < i /\ i < j
             /\ c \notin surviving
             /\ data[c].price.total < data[i].price.total
             /\ data[i].price.total = data[j].price.total
             /\ ~BuiltFrom(flight, data[j], traveler)
             /\ BuiltFrom(flight, data[i], traveler)

\* The place in the submission of the traveler of a flight.
TravelerOf(flight, travelers) ==
    CHOOSE i \in 1..Len(travelers) : travelers[i].name.v = flight.traveler_name

\* The flights of a DestinationResult follow the travelers' order, and
\* individual_totals holds their total prices, place by place.
OrderedAndAligned(destination_result, travelers) ==
    LET flights == destination_result.traveler_flights
        totals == destination_result.group_stats.individual_totals
    IN  /\ \A i, j \in 1..Len(flights) :
               i < j => TravelerOf(flights[i], travelers)
                            <= TravelerOf(flights[j], travelers)
        /\ Len(totals) = Len(flights)
        /\ \A i \in 1..Len(flights) : totals[i] = flights[i].total_price

\* C16: in every DestinationResult, of a result being written and of a
\* result stored, traveler_flights is in the order of the submission's
\* travelers and individual_totals[i] is the total_price of
\* traveler_flights[i].
C16_FlightsInTravelerOrder ==
    /\ worker[1].pc = "write_complete" =>
           \A k \in 1..Len(worker[1].job_result.v.destinations) :
               OrderedAndAligned(worker[1].job_result.v.destinations[k],
                                 worker[1].submission.v.travelers.v)
    /\ \A id \in JobIds : \A r \in 1..Len(results[id]) :
           \A k \in 1..Len(results[id][r].v.destinations) :
               OrderedAndAligned(results[id][r].v.destinations[k],
                                 jobs[id].submission.v.travelers.v)

\* A stored result in which the first traveler's flight is dearer than the
\* second traveler's, the other destination of the submission having been
\* dropped.
C16_Witness ==
    \E id \in JobIds : \E r \in 1..Len(results[id]) :
        \E k \in 1..Len(results[id][r].v.destinations) :
            LET flights == results[id][r].v.destinations[k].traveler_flights
                travelers == jobs[id].submission.v.travelers.v
            IN  /\ Len(flights) = 2
                /\ TravelerOf(flights[1], travelers) = 1
                /\ TravelerOf(flights[2], travelers) = 2
                /\ FloatLess(flights[2].total_price, flights[1].total_price)
                /\ Len(jobs[id].submission.v.destinations.v) = 2
                /\ Len(results[id][r].v.destinations) = 1

\* The n-th pair of the cross product of the travelers and d destinations,
\* the travelers outermost.
PairAt(n, d) == [ti |-> ((n - 1) \div d) + 1, di |-> ((n - 1) % d) + 1]

\* C17: the provider calls of a run are, in order, the pairs of the cross
\* product travelers x destinations, the travelers outermost, each once,
\* whatever the earlier calls gave; they are made while the job is marked
\* running, and a run that reaches aggregation has made all of them.
C17_OneCallPerPairInOrder ==
    LET me == worker[1]
        calls == me.calls
    IN  calls # <<>> =>
          LET travelers == me.submission.v.travelers.v
              destinations == me.submission.v.destinations.v
          IN  /\ jobs[me.job_id].status = "running"
              /\ Len(calls) <= Len(travelers) * Len(destinations)
              /\ \A n \in 1..Len(calls) :
                     /\ calls[n].ti = PairAt(n, Len(destinations)).ti
                     /\ calls[n].di = PairAt(n, Len(destinations)).di
              /\ me.pc \in {"aggregate", "write_complete"}
                     => Len(calls) = Len(travelers) * Len(destinations)

\* A run of two travelers and two destinations at aggregation: the first
\* call raised a provider error, the second gave no surviving offer, and
\* the two calls of the second traveler were made all the same.
C17_Witness ==
    /\ worker[1].pc = "aggregate"
    /\ Len(worker[1].submission.v.travelers.v) = 2
    /\ Len(worker[1].submission.v.destinations.v) = 2
    /\ Len(worker[1].calls) = 4
    /\ worker[1].calls[1].kind = "error"
    /\ worker[1].calls[2].kind = "no offer"
    /\ worker[1].calls[3].kind = "flight"
    /\ worker[1].calls[4].kind = "error"

\* The city names an answer of the Location Resolver carries for its first
\* match: none when the call failed or gave no data or no city name.
CityNames(answer) ==
    IF answer.t = "error" THEN {}
    ELSE { answer.data[k].address.v.cityName.v :
             k \in { i \in {1} \cap 1..Len(answer.data) :
                        /\ answer.data[i].address.t = "dict"
                        /\ answer.data[i].address.v.cityName.t = "str" } }

\* The name the run holds for the code it has looked up last.
NameOfLast(me) == DictGet(me.dest_names, me.lookups[Len(me.lookups)], "")

\* The names of the results are the code or a name of the resolver.
ResultNamed(destination_result) ==
    \/ destination_result.destination_name = destination_result.destination
    \/ \E answer \in ResolverAnswers :
           destination_result.destination_name \in CityNames(answer)

\* C18: the run asks the Location Resolver once for each entry of the
\* destination list, in order and before the first provider query; whatever
\* the answer, the run goes on, holding for the code the answer's city name,
\* or the code itself when the call failed or gave no data or no name; and
\* every DestinationResult is named by its code or by a resolved name.
C18_ResolutionNeverFails ==
    /\ [](LET me == worker[1]
          IN  /\ me.pc \in {"resolve", "name"} => me.calls = <<>>
              /\ me.pc \in {"call", "aggregate", "write_complete"}
                     => me.lookups = me.submission.v.destinations.v
              /\ me.raised \notin {"resolve", "name"}
              /\ me.pc = "write_complete"
                     => \A k \in 1..Len(me.job_result.v.destinations) :
                            ResultNamed(me.job_result.v.destinations[k]))
    /\ [][(worker[1].pc = "name" /\ worker'[1] # worker[1]) =>
             /\ worker'[1].pc \in {"resolve", "call"}
             /\ worker'[1].lookups = worker[1].lookups
             /\ IF CityNames(worker[1].lookup) = {}
                THEN NameOfLast(worker'[1]) = worker[1].lookups[Len(worker[1].lookups)]
                ELSE NameOfLast(worker'[1]) \in CityNames(worker[1].lookup)]_vars

\* A stored result of a completed job with two destinations, one named by
\* its code, the resolver having given no name for it, the other by the
\* resolved name.
C18_Witness ==
    \E id \in JobIds : \E r \in 1..Len(results[id]) :
        LET destinations == results[id][r].v.destinations
        IN  /\ jobs[id].status = "complete"
            /\ Len(destinations) = 2
            /\ destinations[1].destination_name = destinations[1].destination
            /\ destinations[2].destination_name # destinations[2].destination

\* C19: validation is sufficient for processing: a run of an accepted
\* submission reaches the failure handler only from a persistence operation
\* that raised, never from the processing of what the provider answered.
C19_ValidationSufficient ==
    \A w \in Workers :
        worker[w].pc = "handler"
            => worker[w].raised \in {"fetch", "mark_running", "write_complete"}

\* The place of a code's first entry in the destination list.
FirstEntry(code, destinations) ==
    CHOOSE i \in 1..Len(destinations) :
        /\ destinations[i] = code
        /\ \A j \in 1..(i - 1) : destinations[j] # code

\* C20: the destinations of a result are in the relative order of the
\* submission's destination list, whatever the provider answered.
C20_ResultInSubmissionOrder ==
    worker[1].pc = "write_complete" =>
        LET included == worker[1].job_result.v.destinations
            destinations == worker[1].submission.v.destinations.v
        IN  \A k, l \in 1..Len(included) :
                k < l => FirstEntry(included[k].destination, destinations)
                             < FirstEntry(included[l].destination, destinations)

====
